---- MODULE Spec2Model ----
(***************************************************************************)
(* Model of the regular-expression engine of codecrafters-grep-rust:       *)
(* the grapheme cursor (re/letter.rs), the pattern parser and the matcher  *)
(* (re/pattern.rs) and the Regex facade (re/mod.rs).                       *)
(*                                                                         *)
(* A string is a sequence of bytes.  A one-byte (ASCII) character is the   *)
(* one-element sequence of its own name; the model's multi-byte characters *)
(* are the two-byte sequence <<"e1", "e2">> and the three-byte sequence    *)
(* <<"e0", "e2", "e2">>, "e2" being a continuation byte.  Offsets are byte *)
(* offsets counted from 0, as in the source.                               *)
(***************************************************************************)
EXTENDS Integers, Sequences, FiniteSets, TLC

VARIABLES expr, s, pc, start_anchor, end_anchor, patterns,
          cur_pos, prev_pat, idx, result,
          letters, returned

(* A Letters value driven by a caller of its own: its fields inner and     *)
(* cursor, and what its next() calls have returned so far, in order        *)
letters_vars == <<letters, returned>>

vars == <<expr, s, pc, start_anchor, end_anchor, patterns,
          cur_pos, prev_pat, idx, result, letters, returned>>

---------------------------------------------------------------------------
(* Outcomes of a function returning Option<usize>: Some(n) is the natural  *)
(* number n, None is NoMatch.  A panic (a slice index out of range or off  *)
(* a character boundary) is Abort, a loop that never exits is Hang; both   *)
(* propagate through every caller.                                         *)
NoMatch == -1
Abort == -2
Hang == -3

IsSome(r) == r >= 0
IsFailure(r) == r < NoMatch

(* Bytes that continue a multi-byte character. *)
ContBytes == {"e2"}

(* str::is_char_boundary *)
is_char_boundary(str, i) ==
  \/ i = 0
  \/ i = Len(str)
  \/ (i < Len(str) /\ str[i + 1] \notin ContBytes)

(* &str[from..to] is defined (does not panic) *)
SliceOk(str, from, to) ==
  /\ from <= to
  /\ to <= Len(str)
  /\ is_char_boundary(str, from)
  /\ is_char_boundary(str, to)

(* &str[from..to] *)
Slice(str, from, to) == SubSeq(str, from + 1, to)

(* &str[from..] is defined *)
SliceFromOk(str, from) == SliceOk(str, from, Len(str))

(* &str[from..] *)
SliceFrom(str, from) == Slice(str, from, Len(str))

---------------------------------------------------------------------------
(* Letters: the grapheme cursor over inner, at byte offset cursor.         *)

(* Letters::tail *)
tail(inner, cursor) == SliceFrom(inner, cursor)

(* Letters::get: None unless cursor..cursor+bytes is a slice of inner *)
get(inner, cursor, bytes) == SliceOk(inner, cursor, cursor + bytes)

(* The widening loop of Letters::next, entered with next_char = None for   *)
(* the width bytes.                                                        *)
RECURSIVE widen(_, _, _)
widen(inner, cursor, bytes) ==
  IF cursor + (bytes + 1) > Len(inner)
  THEN [some |-> TRUE, item |-> tail(inner, Len(inner)), cursor |-> Len(inner)]
  ELSE IF get(inner, cursor, bytes + 1)
       THEN [some |-> TRUE,
             item |-> Slice(inner, cursor, cursor + bytes + 1),
             cursor |-> cursor + bytes + 1]
       ELSE widen(inner, cursor, bytes + 1)

(* A next that yields the byte at the cursor, whatever character it       *)
(* belongs to                                                              *)
next_bytewise(inner, cursor) ==
  IF cursor >= Len(inner)
  THEN [some |-> FALSE, item |-> <<>>, cursor |-> cursor]
  ELSE [some |-> TRUE,
        item |-> SubSeq(inner, cursor + 1, cursor + 1),
        cursor |-> cursor + 1]

(* Letters::next: the item yielded (if some) and the cursor afterwards *)
next(inner, cursor) ==
  IF cursor >= Len(inner)
  THEN [some |-> FALSE, item |-> <<>>, cursor |-> cursor]
  ELSE IF get(inner, cursor, 1)
       THEN [some |-> TRUE,
             item |-> Slice(inner, cursor, cursor + 1),
             cursor |-> cursor + 1]
       ELSE widen(inner, cursor, 1)

(* Letters::new(inner), no next() called yet *)
LettersNew(inner) ==
  /\ letters = [inner |-> inner, cursor |-> 0]
  /\ returned = <<>>

---------------------------------------------------------------------------
(* Pattern nodes (enum Pattern) are records tagged by t:                   *)
(*   [t |-> "Lit", lit |-> grapheme]   [t |-> "AlphaNumeric"]              *)
(*   [t |-> "Digit"]                   [t |-> "Wildcard"]                  *)
(*   [t |-> "PGroup", pats |-> nodes]  [t |-> "NGroup", pats |-> nodes]    *)
(*   [t |-> "MoreThanZero", pat |-> node], likewise MoreThanOne, ZeroOrOne *)
(*   [t |-> "Alternation", pats |-> sequence of node sequences]            *)

AsciiDigits == {"0", "1", "2", "3", "4", "5", "6", "7", "8", "9"}

AsciiLetters ==
  {"a", "b", "c", "d", "e", "f", "g", "h", "i", "j", "k", "l", "m",
   "n", "o", "p", "q", "r", "s", "t", "u", "v", "w", "x", "y", "z",
   "A", "B", "C", "D", "E", "F", "G", "H", "I", "J", "K", "L", "M",
   "N", "O", "P", "Q", "R", "S", "T", "U", "V", "W", "X", "Y", "Z"}

(* l is one grapheme; a one-byte grapheme is contained in the string of    *)
(* letters iff it is one of them, a longer one never is.                   *)
is_ascii_alphabet(l) == Len(l) = 1 /\ l[1] \in AsciiLetters

is_ascii_digit(l) == Len(l) = 1 /\ l[1] \in AsciiDigits

is_ascii_alphanumeric(l) ==
  is_ascii_alphabet(l) \/ is_ascii_digit(l) \/ l = <<"_">>

(* Pattern::evaluate_with_next *)
evaluate_with_next(pat) ==
  pat.t \in {"MoreThanOne", "MoreThanZero", "ZeroOrOne"}

RECURSIVE match_size(_, _)
RECURSIVE first_member(_, _, _)
RECURSIVE no_member(_, _, _)
RECURSIVE repeat(_, _, _)
RECURSIVE find_branch(_, _, _)
RECURSIVE search_match_size(_, _)
RECURSIVE sequence_from(_, _, _, _, _)
RECURSIVE scan(_, _, _, _)
RECURSIVE search_match_pos(_, _)

(* letters.next().and_then(|l| if accepted { Some(l.len()) } else { None }) *)
(* for the first letter l of the text, a record of Letters::next           *)
len_if(l, accepted) == IF l.some /\ accepted THEN Len(l.item) ELSE NoMatch

(* PGroup: pats.iter().filter_map(|pat| pat.match_size(s)).next() *)
first_member(pats, str, k) ==
  IF k > Len(pats) THEN NoMatch
  ELSE LET r == match_size(pats[k], str)
       IN  IF r = NoMatch THEN first_member(pats, str, k + 1) ELSE r

(* The size a negative group reports when it matches *)
NGroupSize == 1

(* NGroup: if pats.iter().all(|pat| pat.match_size(s).is_none())           *)
(*         { Some(1) } else { None }                                       *)
no_member(pats, str, k) ==
  IF k > Len(pats) THEN NGroupSize
  ELSE LET r == match_size(pats[k], str)
       IN  IF r = NoMatch THEN no_member(pats, str, k + 1)
           ELSE IF IsFailure(r) THEN r ELSE NoMatch

(* while let Some(size) = pat.match_size(&s[acc..]) { acc += size; }       *)
(* An iteration of size 0 leaves acc as it was, and match_size is a pure   *)
(* function: the same iteration repeats for ever.                          *)
repeat(pat, str, acc) ==
  IF ~SliceFromOk(str, acc) THEN Abort
  ELSE LET size == match_size(pat, SliceFrom(str, acc))
       IN  IF size = NoMatch THEN acc
           ELSE IF IsFailure(size) THEN size
           ELSE IF size = 0 THEN Hang
           ELSE repeat(pat, str, acc + size)

(* A find_branch that tries the first branch only *)
find_branch_first(branches, str, k) ==
  IF k > Len(branches) THEN NoMatch ELSE search_match_size(branches[k], str)

(* Alternation: pats.iter().find_map(|patterns| search_match_size(..)) *)
find_branch(branches, str, k) ==
  IF k > Len(branches) THEN NoMatch
  ELSE LET r == search_match_size(branches[k], str)
       IN  IF r = NoMatch THEN find_branch(branches, str, k + 1) ELSE r

(* Pattern::match_size *)
match_size(pat, str) ==
  CASE pat.t = "Lit" ->
         LET l == next(str, 0) IN len_if(l, l.item = pat.lit)
    [] pat.t = "AlphaNumeric" ->
         LET l == next(str, 0) IN len_if(l, is_ascii_alphanumeric(l.item))
    [] pat.t = "Digit" ->
         LET l == next(str, 0) IN len_if(l, is_ascii_digit(l.item))
    [] pat.t = "Wildcard" ->
         LET l == next(str, 0) IN len_if(l, TRUE)
    [] pat.t = "PGroup" -> first_member(pat.pats, str, 1)
    [] pat.t = "NGroup" -> no_member(pat.pats, str, 1)
    [] pat.t = "MoreThanZero" -> repeat(pat.pat, str, 0)
    [] pat.t = "MoreThanOne" ->
         LET size == match_size(pat.pat, str)
         IN  IF IsSome(size) THEN repeat(pat.pat, str, size) ELSE size
    [] pat.t = "ZeroOrOne" ->
         LET size == match_size(pat.pat, str)
         IN  IF size = NoMatch THEN 0 ELSE size
    [] pat.t = "Alternation" -> find_branch(pat.pats, str, 1)

(* A scan that counts the letters passed, one per letter, where            *)
(* search_match_pos counts their bytes                                     *)
scan_counting(pat, str, cursor, pos) ==
  LET m == match_size(pat, tail(str, cursor))
  IN  IF IsSome(m) THEN pos
      ELSE IF IsFailure(m) THEN m
      ELSE LET l == next(str, cursor)
           IN  IF ~l.some THEN NoMatch
               ELSE IF pos + 1 >= Len(str) THEN NoMatch
               ELSE scan(pat, str, l.cursor, pos + 1)

(* The while loop of search_match_pos: letters is at cursor, pos bytes     *)
(* have been counted.                                                      *)
scan(pat, str, cursor, pos) ==
  LET m == match_size(pat, tail(str, cursor))
  IN  IF IsSome(m) THEN pos
      ELSE IF IsFailure(m) THEN m
      ELSE LET l == next(str, cursor)
           IN  IF ~l.some THEN NoMatch
               ELSE IF pos + Len(l.item) >= Len(str) THEN NoMatch
               ELSE scan(pat, str, l.cursor, pos + Len(l.item))

(* Pattern::search_match_pos *)
search_match_pos(pat, str) == scan(pat, str, 0, 0)

(* A resolve that lets the deferred quantifier span the b bytes up to the  *)
(* node, whatever the quantifier matches there                             *)
resolve_spanning(prev, pat, str, cur) ==
  IF ~SliceFromOk(str, cur) THEN Abort
  ELSE search_match_pos(pat, SliceFrom(str, cur))

(* A deferred quantifier prev resolved against the node pat at cur:        *)
(* pat.search_match_pos(&s[cur..])                                         *)
(*    .and_then(|b| prev.match_size(&s[cur..(cur + b)]))                   *)
resolve(prev, pat, str, cur) ==
  IF ~SliceFromOk(str, cur) THEN Abort
  ELSE LET b == search_match_pos(pat, SliceFrom(str, cur))
       IN  IF ~IsSome(b) THEN b
           ELSE IF ~SliceOk(str, cur, cur + b) THEN Abort
           ELSE match_size(prev, Slice(str, cur, cur + b))

(* pat.match_size(&s[cur..]) *)
match_at(pat, str, cur) ==
  IF ~SliceFromOk(str, cur) THEN Abort
  ELSE match_size(pat, SliceFrom(str, cur))

(* The for loop of search_match_size and what follows it: k is the index   *)
(* of the next node, prev the index of the deferred quantifier (0: none).  *)
sequence_from(pats, str, k, cur, prev) ==
  IF k > Len(pats)
  THEN IF prev = 0 THEN cur
       ELSE LET size == match_at(pats[prev], str, cur)
            IN  IF IsSome(size) THEN cur + size ELSE size
  ELSE IF cur > Len(str) THEN NoMatch
  ELSE IF evaluate_with_next(pats[k])
       THEN sequence_from(pats, str, k + 1, cur, k)
  ELSE LET q == IF prev = 0 THEN 0 ELSE resolve(pats[prev], pats[k], str, cur)
       IN  IF ~IsSome(q) THEN q
           ELSE LET size == match_at(pats[k], str, cur + q)
                IN  IF ~IsSome(size) THEN size
                    ELSE sequence_from(pats, str, k + 1, cur + q + size, 0)

(* search_match_size *)
search_match_size(pats, str) == sequence_from(pats, str, 1, 0, 0)

---------------------------------------------------------------------------
(* The parser.  A PatternChar is a record tagged by kind; kind "Itself"    *)
(* carries the node in pat.                                                *)

Lit(l) == [t |-> "Lit", lit |-> l]

Itself(p, rest) == [some |-> TRUE, chr |-> [kind |-> "Itself", pat |-> p], rest |-> rest]

Token(kind, rest) == [some |-> TRUE, chr |-> [kind |-> kind], rest |-> rest]

NoToken == [some |-> FALSE]

(* PatternChar::pick *)
pick(e) ==
  LET l1 == next(e, 0)
      t1 == tail(e, l1.cursor)
  IN  IF ~l1.some THEN NoToken
      ELSE CASE l1.item = <<"\\">> ->
                  LET l2 == next(e, l1.cursor)
                      t2 == tail(e, l2.cursor)
                  IN  IF ~l2.some THEN NoToken
                      ELSE CASE l2.item = <<"w">> -> Itself([t |-> "AlphaNumeric"], t2)
                             [] l2.item = <<"d">> -> Itself([t |-> "Digit"], t2)
                             [] OTHER -> Itself(Lit(l2.item), t2)
             [] l1.item = <<".">> -> Itself([t |-> "Wildcard"], t1)
             [] l1.item = <<"[">> ->
                  IF t1 # <<>> /\ t1[1] = "^"
                  THEN Token("NGroupOpen", tail(e, next(e, l1.cursor).cursor))
                  ELSE Token("PGroupOpen", t1)
             [] l1.item = <<"]">> -> Token("GroupClose", t1)
             [] l1.item = <<"+">> -> Token("MoreThanOne", t1)
             [] l1.item = <<"*">> -> Token("MoreThanZero", t1)
             [] l1.item = <<"?">> -> Token("ZeroOrOne", t1)
             [] l1.item = <<"(">> -> Token("AltOpen", t1)
             [] l1.item = <<")">> -> Token("AltClose", t1)
             [] l1.item = <<"|">> -> Token("AltDelimiter", t1)
             [] OTHER -> Itself(Lit(l1.item), t1)

(* ParsedPatterns *)
Parsed(inner, remaining, last_char) ==
  [inner |-> inner, remaining |-> remaining, last_char |-> last_char]

(* if let Some(p) = patterns.pop() { patterns.push(Quantifier(p)) } *)
quantify(pats, kind) ==
  IF pats = <<>> THEN pats
  ELSE Append(SubSeq(pats, 1, Len(pats) - 1),
              [t |-> kind, pat |-> pats[Len(pats)]])

RECURSIVE parse_loop(_, _)
RECURSIVE branches(_, _)

(* The AltOpen arm: parsed is the branch just parsed, inners the branches  *)
(* collected before it; yields the branches and the rest of the text.      *)
branches(parsed, inners) ==
  IF parsed.last_char = "AltDelimiter"
  THEN branches(parse_loop(parsed.remaining, <<>>), Append(inners, parsed.inner))
  ELSE [inners |-> Append(inners, parsed.inner), rest |-> parsed.remaining]

(* The while loop of parse_pattern, with rest_expr left to read and        *)
(* pats built so far.                                                      *)
parse_loop(rest_expr, pats) ==
  LET pk == pick(rest_expr)
  IN  IF ~pk.some THEN Parsed(pats, rest_expr, "None")
      ELSE CASE pk.chr.kind = "Itself" ->
                  parse_loop(pk.rest, Append(pats, pk.chr.pat))
             [] pk.chr.kind \in {"MoreThanZero", "MoreThanOne", "ZeroOrOne"} ->
                  parse_loop(pk.rest, quantify(pats, pk.chr.kind))
             [] pk.chr.kind \in {"PGroupOpen", "NGroupOpen"} ->
                  LET sub == parse_loop(pk.rest, <<>>)
                      node == [t |-> IF pk.chr.kind = "PGroupOpen"
                                     THEN "PGroup" ELSE "NGroup",
                               pats |-> sub.inner]
                  IN  parse_loop(sub.remaining, Append(pats, node))
             [] pk.chr.kind = "AltOpen" ->
                  LET alt == branches(parse_loop(pk.rest, <<>>), <<>>)
                  IN  parse_loop(alt.rest,
                                 Append(pats, [t |-> "Alternation", pats |-> alt.inners]))
             [] pk.chr.kind \in {"GroupClose", "AltClose", "AltDelimiter"} ->
                  Parsed(pats, pk.rest, pk.chr.kind)

(* parse_pattern *)
parse_pattern(e) == parse_loop(e, <<>>)

(* ParsedPatterns::completed *)
completed(parsed) == parsed.remaining = <<>>

(* Regex::new, up to the call of parse_pattern: the anchors and the text   *)
(* handed to the parser.                                                   *)
strip_anchors(e) ==
  LET sa == e # <<>> /\ e[1] = "^"
      e1 == IF sa THEN Slice(e, 1, Len(e)) ELSE e
      ea == e1 # <<>> /\ e1[Len(e1)] = "$"
      e2 == IF ea THEN Slice(e1, 0, Len(e1) - 1) ELSE e1
  IN  [start_anchor |-> sa, end_anchor |-> ea, body |-> e2]

---------------------------------------------------------------------------
(* The program: Regex::new(expr) followed by is_match(s).                  *)
(*   pc = "new"       Regex::new has not run                               *)
(*   pc = "invalid"   Regex::new panicked ("Cannot parse regexp            *)
(*                    completely!"): there is no Regex                     *)
(*   pc = "is_match"  the Regex is built, is_match is entered              *)
(*   pc = "for"       at the head of the for loop, before node idx         *)
(*   pc = "match"     in the loop body before pat.match_size(&s[cur_pos..])*)
(*   pc = "done"      is_match returned result                             *)
(*   pc = "abort"     is_match panicked                                    *)
(*   pc = "hang"      is_match is in a loop that never exits               *)
(*   pc = "letters"   no Regex is involved: a caller drives letters        *)

(* What is_match does on a failure r of a call: nothing is returned. *)
fails(r) ==
  /\ pc' = (IF r = Abort THEN "abort" ELSE "hang")
  /\ UNCHANGED <<cur_pos, prev_pat, idx, result>>

(* return b *)
returns(b) ==
  /\ pc' = "done"
  /\ result' = b
  /\ UNCHANGED <<cur_pos, prev_pat, idx>>

(* Regex::new *)
New ==
  /\ pc = "new"
  /\ LET a == strip_anchors(expr)
         parsed == parse_pattern(a.body)
     IN  IF ~completed(parsed)
         THEN /\ pc' = "invalid"
              /\ UNCHANGED <<start_anchor, end_anchor, patterns>>
         ELSE /\ pc' = "is_match"
              /\ start_anchor' = a.start_anchor
              /\ end_anchor' = a.end_anchor
              /\ patterns' = parsed.inner
  /\ UNCHANGED <<expr, s, cur_pos, prev_pat, idx, result>>
  /\ UNCHANGED letters_vars

(* self.patterns.first().and_then(|p| p.search_match_pos(s)) *)
first_pos(pats, str) ==
  IF pats = <<>> THEN NoMatch ELSE search_match_pos(pats[1], str)

(* A start_pos that searches for the first offset whatever the anchor *)
start_pos_searching(anchored, pats, str) == first_pos(pats, str)

(* The offset at which is_match starts the node sequence *)
start_pos(anchored, pats, str) ==
  IF anchored THEN 0 ELSE first_pos(pats, str)

(* is_match, up to the for loop *)
Enter ==
  /\ pc = "is_match"
  /\ LET pos == start_pos(start_anchor, patterns, s)
     IN  IF IsSome(pos)
         THEN /\ cur_pos' = pos
              /\ prev_pat' = 0
              /\ idx' = 1
              /\ pc' = "for"
              /\ UNCHANGED result
         ELSE IF pos = NoMatch THEN returns(FALSE)
         ELSE fails(pos)
  /\ UNCHANGED <<expr, s, start_anchor, end_anchor, patterns>>
  /\ UNCHANGED letters_vars

(* One iteration of the for loop, up to pat.match_size(&s[cur_pos..]) *)
ForHead ==
  /\ pc = "for"
  /\ idx <= Len(patterns)
  /\ LET pat == patterns[idx]
     IN  IF cur_pos > Len(s) THEN returns(FALSE)
         ELSE IF evaluate_with_next(pat)
         THEN /\ prev_pat' = idx
              /\ idx' = idx + 1
              /\ UNCHANGED <<pc, cur_pos, result>>
         ELSE IF prev_pat # 0
         THEN LET size == resolve(patterns[prev_pat], pat, s, cur_pos)
              IN  IF IsSome(size)
                  THEN /\ cur_pos' = cur_pos + size
                       /\ prev_pat' = 0
                       /\ pc' = "match"
                       /\ UNCHANGED <<idx, result>>
                  ELSE IF size = NoMatch THEN returns(FALSE)
                  ELSE fails(size)
         ELSE /\ pc' = "match"
              /\ UNCHANGED <<cur_pos, prev_pat, idx, result>>
  /\ UNCHANGED <<expr, s, start_anchor, end_anchor, patterns>>
  /\ UNCHANGED letters_vars

(* The rest of the iteration: match pat.match_size(&s[cur_pos..]) *)
MatchNode ==
  /\ pc = "match"
  /\ LET size == match_at(patterns[idx], s, cur_pos)
     IN  IF IsSome(size)
         THEN /\ cur_pos' = cur_pos + size
              /\ idx' = idx + 1
              /\ pc' = "for"
              /\ UNCHANGED <<prev_pat, result>>
         ELSE IF size = NoMatch THEN returns(FALSE)
         ELSE fails(size)
  /\ UNCHANGED <<expr, s, start_anchor, end_anchor, patterns>>
  /\ UNCHANGED letters_vars

(* The value is_match returns once the nodes are consumed at offset cur *)
verdict(anchored, str, cur) == IF anchored THEN cur = Len(str) ELSE TRUE

(* is_match after the for loop: the quantifier still deferred, then the    *)
(* end anchor.                                                             *)
Finish ==
  /\ pc = "for"
  /\ idx > Len(patterns)
  /\ LET size == IF prev_pat = 0 THEN 0
                 ELSE match_at(patterns[prev_pat], s, cur_pos)
     IN  IF IsSome(size)
         THEN /\ cur_pos' = cur_pos + size
              /\ prev_pat' = 0
              /\ result' = verdict(end_anchor, s, cur_pos + size)
              /\ pc' = "done"
              /\ UNCHANGED idx
         ELSE IF size = NoMatch THEN returns(FALSE)
         ELSE fails(size)
  /\ UNCHANGED <<expr, s, start_anchor, end_anchor, patterns>>
  /\ UNCHANGED letters_vars

Next == New \/ Enter \/ ForHead \/ MatchNode \/ Finish

(* The state before Regex::new(e) and is_match(str) *)
Start(e, str) ==
  /\ expr = e
  /\ s = str
  /\ pc = "new"
  /\ start_anchor = FALSE
  /\ end_anchor = FALSE
  /\ patterns = <<>>
  /\ cur_pos = 0
  /\ prev_pat = 0
  /\ idx = 0
  /\ result = FALSE
  /\ LettersNew(<<>>)

---------------------------------------------------------------------------
(* Inputs.                                                                 *)

MaxText == 3
MaxLit == 2

A == <<"a">>
B == <<"b">>
C == <<"c">>
E == <<"e1", "e2">>

(* The strings of at most n graphemes drawn from G *)
RECURSIVE Strings(_, _)
Strings(G, n) ==
  IF n = 0 THEN {<<>>}
  ELSE LET shorter == Strings(G, n - 1)
       IN  shorter \cup {x \o g : x \in shorter, g \in G}

(* Literal patterns, with and without anchors, against texts that hold a   *)
(* multi-byte grapheme.                                                    *)
LitPatterns == Strings({A, B, E}, MaxLit) \ {<<>>}

LitTexts == Strings({A, B, E}, MaxText)

LitExprs ==
  {pre \o p \o post :
     pre \in {<<>>, <<"^">>}, p \in LitPatterns, post \in {<<>>, <<"$">>}}

InitLit == \E e \in LitExprs, str \in LitTexts : Start(e, str)

SpecLit == InitLit /\ [][Next]_vars

(* Negative groups of literals, alone, quantified, and followed by a       *)
(* literal, against texts with letters inside and outside the group and    *)
(* a multi-byte grapheme.                                                  *)
D == <<"d">>

NegGroups == {A, A \o B, A \o B \o C}

NegExprs ==
  {<<"[", "^">> \o g \o <<"]">> \o q \o post :
     g \in NegGroups,
     q \in {<<>>, <<"*">>, <<"+">>, <<"?">>},
     post \in {<<>>, B}}

NegTexts == Strings({A, B, C, D, E}, MaxText)

InitNeg == \E e \in NegExprs, str \in NegTexts : Start(e, str)

SpecNeg == InitNeg /\ [][Next]_vars

(* Every pattern text of at most MaxQuant characters made of two literals  *)
(* and the three quantifiers, against texts of three letters.              *)
MaxQuant == 4

RECURSIVE Texts(_, _)
Texts(chars, n) ==
  IF n = 0 THEN {<<>>}
  ELSE LET shorter == Texts(chars, n - 1)
       IN  shorter \cup {Append(x, c) : x \in shorter, c \in chars}

QuantExprs == Texts({"a", "b", "*", "+", "?"}, MaxQuant) \ {<<>>}

QuantTexts == Strings({A, B, C}, MaxText)

InitQuant == \E e \in QuantExprs, str \in QuantTexts : Start(e, str)

SpecQuant == InitQuant /\ [][Next]_vars

(* A deferred quantifier and the node it is resolved against: sequences   *)
(* of at most MaxUnits units, a unit being an atom (a literal or a         *)
(* negative group) with or without a quantifier.                           *)
MaxUnits == 2

DeferUnits ==
  {atom \o q :
     atom \in {A, B, <<"[", "^", "a", "]">>},
     q \in {<<>>, <<"*">>, <<"+">>, <<"?">>}}

DeferExprs == Strings(DeferUnits, MaxUnits) \ {<<>>}

DeferTexts == Strings({A, B, E}, MaxText)

InitDefer == \E e \in DeferExprs, str \in DeferTexts : Start(e, str)

SpecDefer == InitDefer /\ [][Next]_vars

(* Every pattern text of at most MaxParse characters made of a literal,    *)
(* the scope delimiters, the branch delimiter, the negation mark and the   *)
(* quantifiers.                                                            *)
MaxParse == 3

ParseExprs ==
  Texts({"a", "[", "^", "]", "(", "|", ")", "*", "+", "?"}, MaxParse) \ {<<>>}

ParseTexts == {<<>>, A, B}

InitParse == \E e \in ParseExprs, str \in ParseTexts : Start(e, str)

SpecParse == InitParse /\ [][Next]_vars

(* Alternations of at most MaxBranches branches, each a sequence of at     *)
(* most MaxBranchLen literals, as the whole pattern.                       *)
MaxBranches == 2
MaxBranchLen == 2

AltBranches == Strings({A, B}, MaxBranchLen)

(* b1|...|bn for 1 <= n <= k *)
RECURSIVE AltBodies(_)
AltBodies(k) ==
  IF k = 1 THEN AltBranches
  ELSE LET fewer == AltBodies(k - 1)
       IN  fewer \cup {x \o <<"|">> \o b : x \in fewer, b \in AltBranches}

AltExprs == {<<"(">> \o x \o <<")">> : x \in AltBodies(MaxBranches)}

(* Texts of the branches' letters, also behind a multi-byte grapheme *)
AltTexts ==
  Strings({A, B}, MaxText) \cup {E \o x : x \in Strings({A, B}, MaxText - 1)}

InitAlt == \E e \in AltExprs, str \in AltTexts : Start(e, str)

SpecAlt == InitAlt /\ [][Next]_vars

(* A Letters over a text of at most MaxText graphemes of one, two and      *)
(* three bytes, on which next() is called up to MaxCalls times: more often *)
(* than the text has graphemes.                                            *)
MaxCalls == 5

E3 == <<"e0", "e2", "e2">>

LetterTexts == Strings({A, B, E, E3}, MaxText)

(* One call of letters.next(), its return value recorded *)
LettersNext ==
  /\ pc = "letters"
  /\ Len(returned) < MaxCalls
  /\ LET l == next(letters.inner, letters.cursor)
     IN  /\ letters' = [letters EXCEPT !.cursor = l.cursor]
         /\ returned' = Append(returned, [some |-> l.some, item |-> l.item])
  /\ UNCHANGED <<expr, s, pc, start_anchor, end_anchor, patterns,
                 cur_pos, prev_pat, idx, result>>

InitLetters ==
  \E str \in LetterTexts :
    /\ LettersNew(str)
    /\ expr = <<>>
    /\ s = str
    /\ pc = "letters"
    /\ start_anchor = FALSE
    /\ end_anchor = FALSE
    /\ patterns = <<>>
    /\ cur_pos = 0
    /\ prev_pat = 0
    /\ idx = 0
    /\ result = FALSE

SpecLetters == InitLetters /\ [][LettersNext]_vars

---------------------------------------------------------------------------
(* Reference notions of the standard library, on byte strings.             *)

(* str::contains *)
Contains(str, p) ==
  \E i \in 0..(Len(str) - Len(p)) : SubSeq(str, i + 1, i + Len(p)) = p

(* str::starts_with *)
StartsWith(str, p) ==
  Len(p) <= Len(str) /\ SubSeq(str, 1, Len(p)) = p

(* str::ends_with *)
EndsWith(str, p) ==
  Len(p) <= Len(str) /\ SubSeq(str, Len(str) - Len(p) + 1, Len(str)) = p

(* The pattern text between the anchors *)
Body == strip_anchors(expr).body

(* Regex::new built a Regex and is_match has returned *)
Returned == pc = "done"

---------------------------------------------------------------------------
(* C1: for a pattern p of literal characters only, without anchors,        *)
(* is_match(s) returns s.contains(p).                                      *)
C1_LiteralIsContains ==
  (Returned /\ ~start_anchor /\ ~end_anchor /\ expr \in LitExprs)
    => (result = Contains(s, Body))

(* C6: for a literal pattern p, Regex::new(p + "$").is_match(s) returns    *)
(* s.ends_with(p).                                                         *)
C6_EndAnchorIsEndsWith ==
  (Returned /\ ~start_anchor /\ end_anchor /\ expr \in LitExprs)
    => (result = EndsWith(s, Body))

(* C7: for a literal pattern p, Regex::new("^" + p).is_match(s) returns    *)
(* s.starts_with(p), always returns, and enters the node sequence at       *)
(* offset 0 without a search for a start offset.                           *)
C7_StartAnchorIsStartsWith ==
  (start_anchor /\ ~end_anchor /\ expr \in LitExprs)
    => /\ pc \notin {"abort", "hang"}
       /\ (pc = "for" /\ idx = 1) => cur_pos = 0
       /\ Returned => (result = StartsWith(s, Body))

(* C7 witness: an anchored literal is rejected on a text that holds it     *)
(* at a later offset, and accepted on a longer text that starts with it.   *)
C7_Witness ==
  /\ Returned /\ start_anchor /\ ~end_anchor /\ expr \in LitExprs
  /\ ~result
  /\ Contains(s, Body)
  /\ Len(Body) > 1

---------------------------------------------------------------------------
(* C2: once Regex::new has built a Regex, is_match never aborts: no slice  *)
(* of s is taken out of range or off a grapheme boundary.                  *)
C2_MatchNeverAborts == pc # "abort"

(* C3: every match terminates: no repetition loop runs for ever.           *)
C3_MatchTerminates == pc # "hang"

---------------------------------------------------------------------------
(* The text has more openers of a scope than closers of its kind *)
Count(e, c) == Cardinality({i \in 1..Len(e) : e[i] = c})

Unclosed(e) ==
  \/ Count(e, "[") > Count(e, "]")
  \/ Count(e, "(") > Count(e, ")")

Quantifiers == {"*", "+", "?"}

(* A quantifier stands where the sequence being built is empty: at the     *)
(* start of the text or right after the opener of a scope or a branch      *)
Dangling(e) ==
  \E i \in 1..Len(e) :
    /\ e[i] \in Quantifiers
    /\ \/ i = 1
       \/ e[i - 1] \in {"[", "(", "|"}
       \/ (i > 2 /\ e[i - 1] = "^" /\ e[i - 2] = "[")

(* Regex::new has returned a Regex *)
Built == pc \notin {"new", "invalid"}

(* C4: Regex::new signals an invalid pattern, and returns no Regex, for    *)
(* every pattern with an unclosed [, [^ or ( and for every pattern with a  *)
(* quantifier that has no preceding atom.                                  *)
C4_MalformedIsInvalid == (Unclosed(Body) \/ Dangling(Body)) => ~Built

---------------------------------------------------------------------------
(* The negative groups alone *)
PlainNegExprs == {<<"[", "^">> \o g \o <<"]">> : g \in NegGroups}

(* The letters listed in the group [^...] *)
Listed(e) == {e[i] : i \in 3..(Len(e) - 1)}

(* The text holds a grapheme that is none of the letters (one-byte         *)
(* graphemes): a grapheme starts at every byte that continues none.        *)
HasOutside(str, listed) ==
  \E i \in 1..Len(str) : str[i] \notin ContBytes /\ str[i] \notin listed

(* C5: a negative group of literals matches s exactly when s holds a       *)
(* grapheme outside the listed letters.                                    *)
C5_NegativeGroupIsOutside ==
  (Returned /\ expr \in PlainNegExprs)
    => (result = HasOutside(s, Listed(expr)))

---------------------------------------------------------------------------
(* The texts between the bars of b1|...|bn *)
RECURSIVE Split(_, _)
Split(e, cur) ==
  IF e = <<>> THEN {cur}
  ELSE IF Head(e) = "|" THEN {cur} \cup Split(Tail(e), <<>>)
  ELSE Split(Tail(e), Append(cur, Head(e)))

(* The branches of the pattern (b1|...|bn) *)
BranchesOf(e) == Split(SubSeq(e, 2, Len(e) - 1), <<>>)

(* C8: an alternation of literal branches used as the whole pattern        *)
(* matches s exactly when s contains one of the branches, and is_match     *)
(* always returns.                                                         *)
C8_AlternationIsAnyBranch ==
  expr \in AltExprs
    => /\ pc \notin {"invalid", "abort", "hang"}
       /\ Returned => (result = (\E b \in BranchesOf(expr) : Contains(s, b)))

(* C8 witness: an alternation of two different branches accepted on a     *)
(* text that holds only one of them, at an offset other than 0.            *)
C8_Witness ==
  /\ Returned /\ expr \in AltExprs /\ result
  /\ Len(patterns[1].pats) = 2
  /\ Cardinality(BranchesOf(expr)) = 2
  /\ \A b \in BranchesOf(expr) : Len(b) = 2
  /\ \E b \in BranchesOf(expr) :
       /\ Contains(s, b) /\ ~StartsWith(s, b)
       /\ \A c \in BranchesOf(expr) \ {b} : ~Contains(s, c)

---------------------------------------------------------------------------
(* The text is a run of k >= 0 letters a followed by ab *)
RunThenAB(str) ==
  /\ Len(str) >= 2
  /\ str[Len(str)] = "b"
  /\ \A i \in 1..(Len(str) - 1) : str[i] = "a"

(* C9: a*ab matches every text a^k ab: search_match_size on the parsed     *)
(* sequence returns the length of the text and is_match returns true.      *)
C9_GreedyRunThenLiteral ==
  (Returned /\ expr = <<"a", "*", "a", "b">> /\ RunThenAB(s))
    => (result /\ search_match_size(patterns, s) = Len(s))

---------------------------------------------------------------------------
(* The step of is_match that resolves the deferred quantifier              *)
(* patterns[prev_pat] against the node patterns[idx], with success         *)
Resolving ==
  /\ pc = "for"
  /\ idx <= Len(patterns)
  /\ cur_pos <= Len(s)
  /\ ~evaluate_with_next(patterns[idx])
  /\ prev_pat # 0
  /\ pc' = "match"

(* b: the offset at which the node is found in s[cur_pos..] *)
FoundAt == search_match_pos(patterns[idx], SliceFrom(s, cur_pos))

(* The pattern is made of literals and quantifiers only *)
LiteralsOnly == \A i \in 1..Len(expr) : expr[i] \in {"a", "b"} \cup Quantifiers

(* C10 as stated, for the patterns of literals and quantifiers: the        *)
(* deferred quantifier consumes exactly b, cur_pos advances by b.          *)
C10_DeferredConsumesSpan ==
  [][(Resolving /\ LiteralsOnly) => cur_pos' = cur_pos + FoundAt]_vars

(* C10 amended: the deferred quantifier consumes what its match_size       *)
(* returns on the prefix s[cur_pos..cur_pos+b], cur_pos advances by that   *)
(* length, and when the length is less than b the node's match_size does   *)
(* not succeed at the position reached.                                    *)
C10_DeferredConsumesMatchSize ==
  [][Resolving =>
       LET b == FoundAt
           q == match_size(patterns[prev_pat], Slice(s, cur_pos, cur_pos + b))
       IN  /\ cur_pos' = cur_pos + q
           /\ q < b => ~IsSome(match_at(patterns[idx], s, cur_pos'))]_vars

(* C10 witness: a* deferred at offset 0 was resolved against a node found  *)
(* at a later offset and consumed nothing.                                 *)
C10_Witness ==
  /\ pc = "match" /\ idx = 2 /\ ~start_anchor
  /\ patterns[1].t = "MoreThanZero"
  /\ cur_pos = 0
  /\ search_match_pos(patterns[2], s) > 0

---------------------------------------------------------------------------
(* The offsets of str at which a grapheme starts *)
GraphemeStarts(str) == {q \in 0..(Len(str) - 1) : is_char_boundary(str, q)}

(* r is what the claim allows search_match_pos(node, str) to return *)
EarliestStart(node, str, r) ==
  /\ IsSome(r) =>
       /\ r \in 0..Len(str)
       /\ is_char_boundary(str, r)
       /\ IsSome(match_size(node, SliceFrom(str, r)))
       /\ \A q \in GraphemeStarts(str) :
            q < r => match_size(node, SliceFrom(str, q)) = NoMatch
  /\ r = NoMatch =>
       \A q \in GraphemeStarts(str) :
         match_size(node, SliceFrom(str, q)) = NoMatch

(* is_match has searched the start offset with search_match_pos and found  *)
(* it: the node sequence is entered at cur_pos                             *)
SearchFound == pc = "for" /\ idx = 1 /\ prev_pat = 0 /\ ~start_anchor

(* is_match has searched the start offset and returned for want of one *)
SearchFoundNone ==
  pc = "done" /\ idx = 0 /\ ~start_anchor /\ patterns # <<>>

(* C11: search_match_pos(node, s) returns the earliest start: Some(p) only *)
(* for a grapheme boundary p of s where match_size(node, s[p..]) succeeds  *)
(* while it fails at every grapheme boundary before p, and None only when  *)
(* match_size fails at every offset at which a grapheme of s starts.  It   *)
(* holds of every node of the pattern built by Regex::new against the     *)
(* text, and of the offset at which is_match enters the node sequence.     *)
C11_SearchFindsEarliestStart ==
  /\ pc = "is_match" =>
       \A i \in 1..Len(patterns) :
         EarliestStart(patterns[i], s, search_match_pos(patterns[i], s))
  /\ SearchFound => EarliestStart(patterns[1], s, cur_pos)
  /\ SearchFoundNone => EarliestStart(patterns[1], s, NoMatch)

(* C11 witness: the search passed a multi-byte grapheme and one more       *)
(* grapheme, where the node does not match, and found the node behind them *)
C11_Witness ==
  /\ SearchFound
  /\ Len(s) > 3
  /\ s[1] = "e1"
  /\ cur_pos = 3

---------------------------------------------------------------------------
(* The text holds a closer that closes no open scope or a scope of the     *)
(* other kind; open lists the openers of the scopes open so far, the       *)
(* innermost first.                                                        *)
RECURSIVE BadCloser(_, _)
BadCloser(e, open) ==
  IF e = <<>> THEN FALSE
  ELSE IF Head(e) \in {"[", "("}
       THEN BadCloser(Tail(e), <<Head(e)>> \o open)
  ELSE IF Head(e) \in {"]", ")"}
       THEN IF open = <<>> THEN TRUE
            ELSE IF Head(open) # (IF Head(e) = "]" THEN "[" ELSE "(") THEN TRUE
            ELSE BadCloser(Tail(e), Tail(open))
  ELSE BadCloser(Tail(e), open)

(* C12: Regex::new rejects as invalid every pattern in which a ) or ]      *)
(* closes no open scope, at any position, and every pattern in which a     *)
(* scope opened by [ is closed by ) or one opened by ( is closed by ].     *)
C12_StrayCloserIsInvalid == BadCloser(Body, <<>>) => ~Built

---------------------------------------------------------------------------
(* The slices the first k calls of next() yielded, one after the other *)
RECURSIVE Yielded(_, _)
Yielded(ret, k) ==
  IF k = 0 THEN <<>>
  ELSE Yielded(ret, k - 1) \o (IF ret[k].some THEN ret[k].item ELSE <<>>)

(* x is the encoding of one character: a byte that continues none,         *)
(* followed by continuation bytes only                                     *)
IsScalar(x) ==
  /\ Len(x) >= 1
  /\ x[1] \notin ContBytes
  /\ \A i \in 2..Len(x) : x[i] \in ContBytes

(* C13: after any sequence of next() calls on Letters::new(s) the cursor   *)
(* is on a character boundary within 0..=len(s); the slices yielded so     *)
(* far followed by tail() make up s; every yielded slice is one whole      *)
(* character, never a part of one and never empty; and a call returns      *)
(* None exactly when tail() was empty before it, hence at every call after *)
(* the first None.                                                         *)
C13_LettersCursorInvariant ==
  /\ letters.cursor \in 0..Len(letters.inner)
  /\ is_char_boundary(letters.inner, letters.cursor)
  /\ Yielded(returned, Len(returned)) \o tail(letters.inner, letters.cursor)
       = letters.inner
  /\ \A k \in 1..Len(returned) :
       /\ returned[k].some => IsScalar(returned[k].item)
       /\ (~returned[k].some) <=> (Yielded(returned, k - 1) = letters.inner)

(* C13 witness: next() yielded a three-byte, a one-byte and a two-byte     *)
(* character and then returned None twice.                                 *)
C13_Witness ==
  /\ pc = "letters"
  /\ Len(returned) = 5
  /\ returned[1].item = E3
  /\ returned[2].item = A
  /\ returned[3].item = E
  /\ ~returned[4].some
  /\ ~returned[5].some

====
